---- MODULE Spec2Model ----
(***************************************************************************)
(* A model of clickhouse/orm/query.py: the filter operators, the condition *)
(* trees Q / NDEQ, and the QuerySet / AggregateQuerySet builders.          *)
(*                                                                         *)
(* Text is modelled as a sequence of atoms.  An atom is one character of a *)
(* name or value ("a", "_"), one blank (" "), one line break ("\n") or one *)
(* fixed fragment of SQL ("AND", "(", "SELECT").  Concatenation is \o, so  *)
(* every formatting step of the code is a concatenation here.              *)
(*                                                                         *)
(* A Python call yields a result [exc, val]: exc = "" and val the returned *)
(* value, or exc the name of the exception raised.                         *)
(***************************************************************************)
EXTENDS Integers, Sequences, FiniteSets, TLC

VARIABLES
    model,      \* the model class the session works with
    keyA,       \* FOV session: the filter key built first
    keyB,       \* FOV session: the filter key built second
    value,      \* FOV session: the filter value
    fovA,       \* FOV session: FOV built from keyA (or NoFov)
    fovB,       \* FOV session: FOV built from keyB (or NoFov)
    sqlA,       \* FOV session: result of fovA.to_sql (or NoResult)
    sqlB,       \* FOV session: result of fovB.to_sql (or NoResult)
    tree,       \* tree session: the condition tree built so far
    heap,       \* queryset session: the objects made so far, [objs, lists]
    ret,        \* queryset session: the last call and what it returned or raised
    cur,        \* callers session: the queryset each caller holds
    hist        \* callers session: the calls each caller has made

fovVars == <<keyA, keyB, value, fovA, fovB, sqlA, sqlB>>

callerVars == <<cur, hist>>

qsVars == <<heap, ret, callerVars>>

vars == <<model, fovVars, tree, qsVars>>

-----------------------------------------------------------------------------
(* Bounds *)

MaxNameLen == 5
MaxHeight == 3
MaxObjs == 3
MaxAggObjs == 4
MaxCalls == 2
MaxIndex == 2
MaxCount == 3
MaxPageSize == 2

-----------------------------------------------------------------------------
(* Text helpers *)

SP == " "
NL == "\n"

\* Python's None where a text is expected
PyNone == <<"<None>">>

Ok(v) == [exc |-> "", val |-> v]
Raise(e) == [exc |-> e, val |-> <<>>]
NoResult == [exc |-> "<not called>", val |-> <<>>]

RECURSIVE Join(_, _)
\* sep.join(items)
Join(sep, items) ==
    IF Len(items) = 0 THEN <<>>
    ELSE IF Len(items) = 1 THEN items[1]
    ELSE items[1] \o sep \o Join(sep, Tail(items))

\* utils.comma_join
comma_join(items) == Join(<<",", SP>>, items)

\* utils.is_in_parenthesis
is_in_parenthesis(s) == Len(s) >= 2 /\ s[1] = "(" /\ s[Len(s)] = ")"

\* the strings of length <= n over an alphabet
RECURSIVE StringsUpTo(_, _)
StringsUpTo(alphabet, n) ==
    IF n = 0 THEN {<<>>}
    ELSE LET shorter == StringsUpTo(alphabet, n - 1)
         IN  shorter \cup {Append(s, c) : s \in {t \in shorter : Len(t) = n - 1}, c \in alphabet}

UU == <<"_", "_">>

\* the largest i with s[i..i+1] = "__", 0 if none: str.rfind('__') + 1
RFindUU(s) ==
    LET hits == {i \in 1..(Len(s) - 1) : s[i] = "_" /\ s[i + 1] = "_"}
    IN  IF hits = {} THEN 0 ELSE CHOOSE i \in hits : \A j \in hits : j <= i

-----------------------------------------------------------------------------
(* The schema layer: models, fields and their value coercion *)

\* Python values: None, a str, or a tuple of two values
NoneValue == [t |-> "None", s |-> <<>>, items |-> <<>>]
StrValue(s) == [t |-> "str", s |-> s, items |-> <<>>]
TupleValue(a, b) == [t |-> "tuple", s |-> <<>>, items |-> <<a, b>>]

\* getattr(model_cls, field_name)
HasField(model_cls, field_name) == model_cls.anyField \/ field_name \in model_cls.fields

\* field.to_db_string(field.to_python(value, pytz.utc)): quoted literal, \N for
\* NULL on a nullable field, ValueError for None on a field that is not nullable
to_db_string(model_cls, v) ==
    IF v.t = "None" THEN (IF model_cls.nullable THEN Ok(<<"\\N">>) ELSE Raise("ValueError"))
    ELSE IF v.t = "str" THEN Ok(<<"'">> \o v.s \o <<"'">>)
    ELSE Raise("ValueError")

-----------------------------------------------------------------------------
(* Operators *)

NoOperator == [cls |-> "None", sql_operator |-> <<>>, sql_for_null |-> PyNone,
               pattern |-> "", case_sensitive |-> TRUE, base |-> "None"]

SimpleOperator(sql_operator, sql_for_null) ==
    [NoOperator EXCEPT !.cls = "SimpleOperator", !.sql_operator = sql_operator,
                       !.sql_for_null = sql_for_null]
InOperator == [NoOperator EXCEPT !.cls = "InOperator"]
LikeOperator(pattern, case_sensitive) ==
    [NoOperator EXCEPT !.cls = "LikeOperator", !.pattern = pattern,
                       !.case_sensitive = case_sensitive]
IExactOperator == [NoOperator EXCEPT !.cls = "IExactOperator"]
NotOperator(base_operator) == [NoOperator EXCEPT !.cls = "NotOperator", !.base = base_operator.cls]
BetweenOperator == [NoOperator EXCEPT !.cls = "BetweenOperator"]

\* SimpleOperator.to_sql
SimpleOperator_to_sql(op, model_cls, field_name, v) ==
    IF ~HasField(model_cls, field_name) THEN Raise("AttributeError")
    ELSE LET val == to_db_string(model_cls, v)
         IN  IF val.exc # "" THEN val
             ELSE IF val.val = <<"\\N">> /\ op.sql_for_null # PyNone
                  THEN Ok(field_name \o <<SP>> \o op.sql_for_null)
                  ELSE Ok(field_name \o <<SP>> \o op.sql_operator \o <<SP>> \o val.val)

\* InOperator.to_sql: a str value is used verbatim, a tuple is coerced item by item
InOperator_to_sql(model_cls, field_name, v) ==
    IF ~HasField(model_cls, field_name) THEN Raise("AttributeError")
    ELSE IF v.t = "str" THEN Ok(field_name \o <<SP, "IN", SP, "(">> \o v.s \o <<")">>)
    ELSE IF v.t = "None" THEN Raise("TypeError")
    ELSE LET a == to_db_string(model_cls, v.items[1])
             b == to_db_string(model_cls, v.items[2])
         IN  IF a.exc # "" THEN a
             ELSE IF b.exc # "" THEN b
             ELSE Ok(field_name \o <<SP, "IN", SP, "(">> \o comma_join(<<a.val, b.val>>) \o <<")">>)

RECURSIVE LikeEscape(_)
\* value.replace('\\', '\\\\').replace('%', '\\\\%').replace('_', '\\\\_')
LikeEscape(s) ==
    IF s = <<>> THEN <<>>
    ELSE LET c == Head(s)
         IN  (IF c = "\\" THEN <<"\\", "\\">>
              ELSE IF c = "%" THEN <<"\\", "\\", "%">>
              ELSE IF c = "_" THEN <<"\\", "\\", "_">>
              ELSE <<c>>) \o LikeEscape(Tail(s))

\* LikeOperator.to_sql
LikeOperator_to_sql(op, model_cls, field_name, v) ==
    IF ~HasField(model_cls, field_name) THEN Raise("AttributeError")
    ELSE IF v.t # "str" THEN Raise("ValueError")
    ELSE LET esc == LikeEscape(v.s)
             pat == IF op.pattern = "%{}%" THEN <<"%">> \o esc \o <<"%">>
                    ELSE IF op.pattern = "{}%" THEN esc \o <<"%">>
                    ELSE <<"%">> \o esc
         IN  IF op.case_sensitive
             THEN Ok(field_name \o <<SP, "LIKE", SP, "'">> \o pat \o <<"'">>)
             ELSE Ok(<<"lowerUTF8(toString(">> \o field_name
                     \o <<"))", SP, "LIKE", SP, "lowerUTF8(", "'">> \o pat \o <<"'", ")">>)

\* IExactOperator.to_sql
IExactOperator_to_sql(model_cls, field_name, v) ==
    IF ~HasField(model_cls, field_name) THEN Raise("AttributeError")
    ELSE LET val == to_db_string(model_cls, v)
         IN  IF val.exc # "" THEN val
             ELSE Ok(<<"lowerUTF8(">> \o field_name \o <<")", SP, "=", SP, "lowerUTF8(">>
                     \o val.val \o <<")">>)

\* the guard of lines 124 and 126: value[i] is not None or len(str(value[i])) > 0
\* (str(None) is 'None', of length 4)
BoundIsCoerced(b) == b.t # "None" \/ (IF b.t = "None" THEN 4 ELSE Len(b.s)) > 0

\* BetweenOperator.to_sql; a function that ends without return yields None
BetweenOperator_to_sql(model_cls, field_name, v) ==
    IF ~HasField(model_cls, field_name) THEN Raise("AttributeError")
    ELSE IF v.t # "tuple" THEN Raise("TypeError")
    ELSE LET r0 == IF BoundIsCoerced(v.items[1]) THEN to_db_string(model_cls, v.items[1])
                   ELSE Ok(PyNone)
             r1 == IF BoundIsCoerced(v.items[2]) THEN to_db_string(model_cls, v.items[2])
                   ELSE Ok(PyNone)
             value0 == r0.val
             value1 == r1.val
             truthy0 == value0 # PyNone /\ value0 # <<>>
             truthy1 == value1 # PyNone /\ value1 # <<>>
         IN  IF r0.exc # "" THEN r0
             ELSE IF r1.exc # "" THEN r1
             ELSE IF truthy0 /\ truthy1
                  THEN Ok(field_name \o <<SP, "BETWEEN", SP>> \o value0 \o <<SP, "AND", SP>> \o value1)
             ELSE IF truthy0 /\ ~truthy1
                  THEN Ok(Join(<<SP>>, <<field_name, <<">=">>, value0>>))
             ELSE IF truthy1 /\ ~truthy0
                  THEN Ok(Join(<<SP>>, <<field_name, <<"<=">>, value1>>))
             ELSE Ok(PyNone)

\* Operator.to_sql by class; NotOperator wraps its base operator, which the
\* registry only ever makes an InOperator
Operator_to_sql(op, model_cls, field_name, v) ==
    CASE op.cls = "SimpleOperator" -> SimpleOperator_to_sql(op, model_cls, field_name, v)
      [] op.cls = "InOperator" -> InOperator_to_sql(model_cls, field_name, v)
      [] op.cls = "LikeOperator" -> LikeOperator_to_sql(op, model_cls, field_name, v)
      [] op.cls = "IExactOperator" -> IExactOperator_to_sql(model_cls, field_name, v)
      [] op.cls = "BetweenOperator" -> BetweenOperator_to_sql(model_cls, field_name, v)
      [] op.cls = "NotOperator" ->
            LET inner == InOperator_to_sql(model_cls, field_name, v)
            IN  IF inner.exc # "" THEN inner
                ELSE Ok(<<"NOT", SP, "(">> \o inner.val \o <<")">>)
      [] OTHER -> Raise("NotImplementedError")

\* the names register_operator is called with
OperatorNames ==
    { <<"e","q">>, <<"n","e">>, <<"g","t">>, <<"g","t","e">>, <<"l","t">>, <<"l","t","e">>,
      <<"b","e","t","w","e","e","n">>, <<"i","n">>, <<"n","o","t","_","i","n">>,
      <<"c","o","n","t","a","i","n","s">>, <<"s","t","a","r","t","s","w","i","t","h">>,
      <<"e","n","d","s","w","i","t","h">>, <<"i","c","o","n","t","a","i","n","s">>,
      <<"i","s","t","a","r","t","s","w","i","t","h">>, <<"i","e","n","d","s","w","i","t","h">>,
      <<"i","e","x","a","c","t">> }

\* the registry after the module's register_operator calls; _operators.get(name)
_operators(name) ==
    CASE name = <<"e","q">> -> SimpleOperator(<<"=">>, <<"IS", SP, "NULL">>)
      [] name = <<"n","e">> -> SimpleOperator(<<"!=">>, <<"IS", SP, "NOT", SP, "NULL">>)
      [] name = <<"g","t">> -> SimpleOperator(<<">">>, PyNone)
      [] name = <<"g","t","e">> -> SimpleOperator(<<">=">>, PyNone)
      [] name = <<"l","t">> -> SimpleOperator(<<"<">>, PyNone)
      [] name = <<"l","t","e">> -> SimpleOperator(<<"<=">>, PyNone)
      [] name = <<"b","e","t","w","e","e","n">> -> BetweenOperator
      [] name = <<"i","n">> -> InOperator
      [] name = <<"n","o","t","_","i","n">> -> NotOperator(InOperator)
      [] name = <<"c","o","n","t","a","i","n","s">> -> LikeOperator("%{}%", TRUE)
      [] name = <<"s","t","a","r","t","s","w","i","t","h">> -> LikeOperator("{}%", TRUE)
      [] name = <<"e","n","d","s","w","i","t","h">> -> LikeOperator("%{}", TRUE)
      [] name = <<"i","c","o","n","t","a","i","n","s">> -> LikeOperator("%{}%", FALSE)
      [] name = <<"i","s","t","a","r","t","s","w","i","t","h">> -> LikeOperator("{}%", FALSE)
      [] name = <<"i","e","n","d","s","w","i","t","h">> -> LikeOperator("%{}", FALSE)
      [] name = <<"i","e","x","a","c","t">> -> IExactOperator
      [] OTHER -> NoOperator

-----------------------------------------------------------------------------
(* FOV: field + operator + value *)

NoFov == [_field_name |-> <<>>, _operator |-> NoOperator, _operator_lookup |-> <<>>,
          _value |-> NoneValue, built |-> FALSE]

\* FOV.__init__
FOV(field_name, operator, v) ==
    LET found == _operators(operator)
    IN  IF found = NoOperator
        THEN [_field_name |-> field_name \o UU \o operator,
              _operator |-> _operators(<<"e","q">>),
              _operator_lookup |-> operator, _value |-> v, built |-> TRUE]
        ELSE [_field_name |-> field_name, _operator |-> found,
              _operator_lookup |-> operator, _value |-> v, built |-> TRUE]

\* FOV.to_sql
FOV_to_sql(fov, model_cls) ==
    Operator_to_sql(fov._operator, model_cls, fov._field_name, fov._value)

RECURSIVE FindUU(_, _)
\* the least index from i on at which '__' starts in s, 0 when there is none
FindUU(s, i) ==
    IF i + 1 > Len(s) THEN 0
    ELSE IF s[i] = "_" /\ s[i + 1] = "_" THEN i
    ELSE FindUU(s, i + 1)

\* a variant of _build_fov that splits the key at its first '__': key.split('__', 1)
_build_fov_split_first(key, v) ==
    LET i == FindUU(key, 1)
    IN  IF i > 0
        THEN FOV(SubSeq(key, 1, i - 1), SubSeq(key, i + 2, Len(key)), v)
        ELSE FOV(key, <<"e","q">>, v)

\* Q._build_fov: key.rsplit('__', 1) when '__' is in the key
_build_fov(key, v) ==
    LET i == RFindUU(key)
    IN  IF i > 0
        THEN FOV(SubSeq(key, 1, i - 1), SubSeq(key, i + 2, Len(key)), v)
        ELSE FOV(key, <<"e","q">>, v)

-----------------------------------------------------------------------------
(* Q, NDEQ and FBQ: condition trees *)

NoChild == [cls |-> "None"]

\* Q.__init__ with the FOVs of its keywords already built (see _build_fov)
Q(cls, fovs) ==
    [cls |-> cls, _fovs |-> fovs, _l_child |-> NoChild, _r_child |-> NoChild,
     _negate |-> FALSE, _mode |-> "AND"]

\* Q._construct_from
_construct_from(cls, l_child, r_child, mode) ==
    [Q(cls, <<>>) EXCEPT !._l_child = l_child, !._r_child = r_child, !._mode = mode]

\* Q.__or__
Q__or__(self, other) == _construct_from(self.cls, self, other, "OR")

\* Q.__and__
Q__and__(self, other) == _construct_from(self.cls, self, other, "AND")

\* Q.__invert__: a shallow copy with the flag toggled
Q__invert__(self) == [self EXCEPT !._negate = ~self._negate]

\* the model class an FBFOV hands to its operator: itself, with the pseudo field
\* set under the field name, whose to_db_string is utils.escape
PseudoModel == [table |-> <<>>, collapsing |-> FALSE, nullable |-> FALSE,
                anyField |-> TRUE, fields |-> {}]

\* FBFOV.to_sql
FBFOV_to_sql(fov) == Operator_to_sql(fov._operator, PseudoModel, fov._field_name, fov._value)

\* ' <mode> '.join(fov.to_sql(model_cls) for fov in self._fovs): the first
\* exception raised by a FOV propagates, and joining a None raises TypeError
FovsSql(q, model_cls) ==
    LET parts == [i \in 1..Len(q._fovs) |->
                     IF q.cls = "FBQ" THEN FBFOV_to_sql(q._fovs[i])
                     ELSE FOV_to_sql(q._fovs[i], model_cls)]
        bad == {i \in 1..Len(parts) : parts[i].exc # ""}
    IN  IF bad # {} THEN parts[CHOOSE i \in bad : \A j \in bad : i <= j]
        ELSE IF \E i \in 1..Len(parts) : parts[i].val = PyNone THEN Raise("TypeError")
        ELSE Ok(Join(<<SP, q._mode, SP>>, [i \in 1..Len(parts) |-> parts[i].val]))

NotWrap(sql) == <<"NOT", SP, "(">> \o sql \o <<")">>

RECURSIVE Q_to_sql(_, _)
RECURSIVE NDEQ_to_sql(_, _, _)

\* q.to_sql(model_cls), by the class of q (is_root defaults to True)
to_sql(q, model_cls) ==
    IF q.cls = "NDEQ" THEN NDEQ_to_sql(q, model_cls, TRUE) ELSE Q_to_sql(q, model_cls)

\* child.to_sql(model_cls, is_root=False): only NDEQ.to_sql takes is_root
to_sql_not_root(q, model_cls) ==
    IF q.cls = "NDEQ" THEN NDEQ_to_sql(q, model_cls, FALSE) ELSE Raise("TypeError")

\* Q.to_sql (FBQ inherits it)
Q_to_sql(self, model_cls) ==
    IF self._fovs # <<>>
    THEN LET sql == FovsSql(self, model_cls)
         IN  IF sql.exc # "" THEN sql
             ELSE IF self._negate THEN Ok(NotWrap(sql.val)) ELSE sql
    ELSE IF self._l_child # NoChild /\ self._r_child # NoChild
    THEN LET l_child_sql == to_sql(self._l_child, model_cls)
             r_child_sql == to_sql(self._r_child, model_cls)
             sql == IF l_child_sql.val = <<"1">> THEN r_child_sql.val
                    ELSE IF r_child_sql.val = <<"1">> THEN l_child_sql.val
                    ELSE <<"(">> \o l_child_sql.val \o <<SP, self._mode, SP>>
                         \o r_child_sql.val \o <<")">>
         IN  IF l_child_sql.exc # "" THEN l_child_sql
             ELSE IF r_child_sql.exc # "" THEN r_child_sql
             ELSE IF self._negate THEN Ok(NotWrap(sql)) ELSE Ok(sql)
    ELSE Ok(<<"1">>)

\* a variant of NDEQ.to_sql whose parenthesization ignores is_root
NDEQ_to_sql_ignoring_root(self, model_cls, is_root) ==
    IF self._fovs # <<>>
    THEN LET sql == FovsSql(self, model_cls)
         IN  IF sql.exc # "" THEN sql
             ELSE IF self._negate THEN Ok(NotWrap(sql.val)) ELSE sql
    ELSE IF self._l_child # NoChild /\ self._r_child # NoChild
    THEN LET l_child_sql == to_sql_not_root(self._l_child, model_cls)
             r_child_sql == to_sql_not_root(self._r_child, model_cls)
             wrap == ~(is_in_parenthesis(l_child_sql.val)
                       /\ is_in_parenthesis(r_child_sql.val))
             sql == IF l_child_sql.val = <<"1">> THEN r_child_sql.val
                    ELSE IF r_child_sql.val = <<"1">> THEN l_child_sql.val
                    ELSE IF wrap
                    THEN <<"(">> \o l_child_sql.val \o <<SP, self._mode, SP>>
                         \o r_child_sql.val \o <<")">>
                    ELSE l_child_sql.val \o <<SP, self._mode, SP>> \o r_child_sql.val
         IN  IF l_child_sql.exc # "" THEN l_child_sql
             ELSE IF r_child_sql.exc # "" THEN r_child_sql
             ELSE IF self._negate THEN Ok(NotWrap(sql)) ELSE Ok(sql)
    ELSE Ok(<<"1">>)

\* NDEQ.to_sql
NDEQ_to_sql(self, model_cls, is_root) ==
    IF self._fovs # <<>>
    THEN LET sql == FovsSql(self, model_cls)
         IN  IF sql.exc # "" THEN sql
             ELSE IF self._negate THEN Ok(NotWrap(sql.val)) ELSE sql
    ELSE IF self._l_child # NoChild /\ self._r_child # NoChild
    THEN LET l_child_sql == to_sql_not_root(self._l_child, model_cls)
             r_child_sql == to_sql_not_root(self._r_child, model_cls)
             wrap == is_root \/ ~(is_in_parenthesis(l_child_sql.val)
                                  /\ is_in_parenthesis(r_child_sql.val))
             sql == IF l_child_sql.val = <<"1">> THEN r_child_sql.val
                    ELSE IF r_child_sql.val = <<"1">> THEN l_child_sql.val
                    ELSE IF wrap
                    THEN <<"(">> \o l_child_sql.val \o <<SP, self._mode, SP>>
                         \o r_child_sql.val \o <<")">>
                    ELSE l_child_sql.val \o <<SP, self._mode, SP>> \o r_child_sql.val
         IN  IF l_child_sql.exc # "" THEN l_child_sql
             ELSE IF r_child_sql.exc # "" THEN r_child_sql
             ELSE IF self._negate THEN Ok(NotWrap(sql)) ELSE Ok(sql)
    ELSE Ok(<<"1">>)

RECURSIVE Height(_)
\* the number of compositions on the longest path of a tree
Height(q) ==
    IF q._l_child = NoChild \/ q._r_child = NoChild THEN 0
    ELSE LET l == Height(q._l_child)
             r == Height(q._r_child)
         IN  1 + (IF l >= r THEN l ELSE r)

-----------------------------------------------------------------------------
(* QuerySet and AggregateQuerySet objects                                   *)
(*                                                                          *)
(* The heap H = [objs, lists] holds the queryset objects and the Python     *)
(* list objects their _q and _having attributes refer to.  An attribute     *)
(* holding a list is the index of the list in H.lists, so that two          *)
(* querysets made by copy() refer to the same list until one is rebound.    *)
(* _limits and _join_query are <<>> and NoJoinQuery for None.               *)

NoJoinQuery == [kind |-> "None", table |-> <<>>, obj |-> 0]
\* a model class given as the join target
JoinModel(table) == [kind |-> "model", table |-> table, obj |-> 0]
\* a queryset given as the join target
JoinQuerySet(i) == [kind |-> "qs", table |-> <<>>, obj |-> i]

NewList(H, items) == [H EXCEPT !.lists = Append(@, items)]
NewObj(H, o) == [H EXCEPT !.objs = Append(@, o)]
LastList(H) == Len(H.lists)
LastObj(H) == Len(H.objs)

Returned(H, i) == [H |-> H, exc |-> "", obj |-> i]
Raised(H, e) == [H |-> H, exc |-> e, obj |-> 0]

\* QuerySet.__init__: the attributes of a fresh queryset whose _q is the list q
QuerySetObject(q) ==
    [cls |-> "QuerySet", _order_by |-> <<>>, _q |-> q, _fields |-> << <<"*">> >>,
     _limits |-> <<>>, _join_label |-> <<>>, _join_type |-> <<>>, _join_fields |-> <<>>,
     _join_query |-> NoJoinQuery, _subquery |-> <<>>, _distinct |-> FALSE, _extra |-> <<>>,
     _array |-> <<>>, _final |-> FALSE,
     _grouping_fields |-> <<>>, _calculated_fields |-> <<>>, _having |-> 0, _with |-> <<>>]

\* QuerySet(model_cls, database)
QuerySet__init__(H) ==
    LET H1 == NewList(H, <<>>)
    IN  NewObj(H1, QuerySetObject(LastList(H1)))

\* copy(self): a new object whose attributes refer to the same values
copy(H, self) == NewObj(H, H.objs[self])

\* QuerySet.order_by_as_sql
order_by_as_sql(o) ==
    comma_join([i \in 1..Len(o._order_by) |->
                   LET field == o._order_by[i]
                   IN  IF field[1] = "-" THEN Tail(field) \o <<SP, "DESC">> ELSE field])

\* the renderings of a list of condition trees that are not '1', or the first
\* exception one of them raises
TreesSql(qlist, model_cls) ==
    LET parts == [i \in 1..Len(qlist) |-> to_sql(qlist[i], model_cls)]
        bad == {i \in 1..Len(parts) : parts[i].exc # ""}
    IN  IF bad # {} THEN parts[CHOOSE i \in bad : \A j \in bad : i <= j]
        ELSE Ok(Join(<<SP, "AND", SP>>,
                     SelectSeq([i \in 1..Len(parts) |-> parts[i].val], LAMBDA x : x # <<"1">>)))

\* QuerySet.conditions_as_sql
conditions_as_sql(H, self, model_cls) ==
    LET o == H.objs[self]
        q == H.lists[o._q]
    IN  IF q # <<>>
        THEN LET joined == TreesSql(q, model_cls)
                 res_ == IF joined.val = <<>> THEN <<"1">> ELSE joined.val
             IN  IF joined.exc # "" THEN joined
                 ELSE IF o._extra # <<>> THEN Ok(res_ \o <<SP, "AND", SP>> \o o._extra)
                 ELSE Ok(res_)
        ELSE IF o._extra # <<>> THEN Ok(o._extra)
        ELSE Ok(<<"1">>)

\* AggregateQuerySet.having_as_sql
having_as_sql(H, self, model_cls) ==
    LET joined == TreesSql(H.lists[H.objs[self]._having], model_cls)
    IN  IF joined.exc # "" THEN joined
        ELSE IF joined.val = <<>> THEN Ok(<<"1">>) ELSE joined

\* '%d, %d' % self._limits
LimitsSql(limits) == <<ToString(limits[1]), ",", SP, ToString(limits[2])>>

RECURSIVE as_sql(_, _, _)

\* QuerySet.join_as_sql
join_as_sql(H, self, model_cls) ==
    LET o == H.objs[self]
        join_table == IF o._join_query.kind = "qs"
                      THEN <<"(">> \o as_sql(H, o._join_query.obj, model_cls).val \o <<")">>
                      ELSE o._join_query.table
        join_fields == comma_join(o._join_fields)
    IN  o._join_type \o <<SP>> \o join_table \o <<SP>> \o o._join_label
            \o <<SP, "USING", SP>> \o join_fields

\* QuerySet.as_sql
QuerySet_as_sql(H, self, model_cls) ==
    LET o == H.objs[self]
        distinct == IF o._distinct THEN <<"DISTINCT", SP>> ELSE <<>>
        fields == IF o._fields # <<>> THEN comma_join(o._fields) ELSE <<"*">>
        ordering == IF o._order_by # <<>> THEN <<NL, "ORDER BY", SP>> \o order_by_as_sql(o) ELSE <<>>
        limit == IF o._limits # <<>> THEN <<NL, "LIMIT", SP>> \o LimitsSql(o._limits) ELSE <<>>
        join == IF o._join_fields # <<>> THEN <<NL>> \o join_as_sql(H, self, model_cls) ELSE <<>>
        array_join == IF o._array # <<>> THEN <<NL>> \o o._array ELSE <<>>
        final == IF o._final THEN <<SP, "FINAL">> ELSE <<>>
        table == IF o._subquery # <<>> THEN o._subquery ELSE model_cls.table
        conds == conditions_as_sql(H, self, model_cls)
    IN  IF conds.exc # "" THEN conds
        ELSE Ok(<<"SELECT", SP>> \o distinct \o fields \o <<NL, "FROM", SP>> \o table \o join
                \o array_join \o final \o <<NL, "WHERE", SP>> \o conds.val \o ordering \o limit)

\* AggregateQuerySet.as_sql; _calculated_fields is the sequence of the
\* dict's items, [k, v] each
AggregateQuerySet_as_sql(H, self, model_cls) ==
    LET o == H.objs[self]
        distinct == IF o._distinct THEN <<"DISTINCT", SP>> ELSE <<>>
        grouping == comma_join(o._grouping_fields)
        having == having_as_sql(H, self, model_cls)
        fields == comma_join(o._fields \o
                      [i \in 1..Len(o._calculated_fields) |->
                          o._calculated_fields[i].v \o <<SP, "AS", SP>> \o o._calculated_fields[i].k])
        table == IF o._subquery # <<>> THEN o._subquery ELSE model_cls.table
        conds == conditions_as_sql(H, self, model_cls)
        join == IF o._join_fields # <<>> THEN join_as_sql(H, self, model_cls) ELSE <<>>
        array_join == IF o._array # <<>> THEN o._array ELSE <<>>
        sql0 == <<"SELECT", SP>> \o distinct \o fields \o <<NL, "FROM", SP>> \o table \o <<NL>>
                    \o join \o <<NL>> \o array_join \o <<NL, "WHERE", SP>> \o conds.val
        sql1 == sql0 \o (IF o._grouping_fields # <<>> THEN <<NL, "GROUP BY", SP>> \o grouping ELSE <<>>)
        sql2 == sql1 \o (IF H.lists[o._having] # <<>> THEN <<NL, "HAVING", SP>> \o having.val ELSE <<>>)
        sql3 == sql2 \o (IF o._with # <<>> THEN <<NL, "WITH", SP>> \o o._with ELSE <<>>)
        sql4 == sql3 \o (IF o._order_by # <<>> THEN <<NL, "ORDER BY", SP>> \o order_by_as_sql(o) ELSE <<>>)
        sql5 == sql4 \o (IF o._limits # <<>> THEN <<NL, "LIMIT", SP>> \o LimitsSql(o._limits) ELSE <<>>)
    IN  IF having.exc # "" THEN having
        ELSE IF conds.exc # "" THEN conds
        ELSE Ok(sql5)

\* self.as_sql(), by the class of self
as_sql(H, self, model_cls) ==
    IF H.objs[self].cls = "AggregateQuerySet" THEN AggregateQuerySet_as_sql(H, self, model_cls)
    ELSE QuerySet_as_sql(H, self, model_cls)

-----------------------------------------------------------------------------
(* The builder methods.  Each takes the heap and the receiver and yields    *)
(* [H, exc, obj]: the heap after the call and the object returned, or the   *)
(* heap and the exception raised.                                           *)

\* Q(**filter_fields) of class cls; kw is the sequence of the keywords, [key, value] each
QFromKeywords(cls, kw) == Q(cls, [i \in 1..Len(kw) |-> _build_fov(kw[i].key, kw[i].value)])

SetAttr(H, i, o) == [H EXCEPT !.objs[i] = o]

\* a variant of the body shared by filter and exclude that extends the list
\* self._q in place (qs._q += ...) instead of rebinding qs._q to a new list
RebindQ_in_place(H, self, added, kw, kwtree) ==
    LET H1 == copy(H, self)
        qs == LastObj(H1)
        ref == H1.objs[qs]._q
        H2 == IF added # <<>> THEN [H1 EXCEPT !.lists[ref] = @ \o added] ELSE H1
        H3 == IF kw # <<>> THEN [H2 EXCEPT !.lists[ref] = @ \o <<kwtree>>] ELSE H2
    IN  Returned(H3, qs)

\* the body shared by filter and exclude: qs = copy(self), then qs._q is rebound to
\* a new list list(self._q) + added when q is given, and to a new list
\* qs._q + [tree] when keywords are given
RebindQ(H, self, added, kw, kwtree) ==
    LET H1 == copy(H, self)
        qs == LastObj(H1)
        H2 == IF added # <<>>
              THEN LET Hn == NewList(H1, H1.lists[H1.objs[self]._q] \o added)
                   IN  SetAttr(Hn, qs, [Hn.objs[qs] EXCEPT !._q = LastList(Hn)])
              ELSE H1
        H3 == IF kw # <<>>
              THEN LET Hn == NewList(H2, H2.lists[H2.objs[qs]._q] \o <<kwtree>>)
                   IN  SetAttr(Hn, qs, [Hn.objs[qs] EXCEPT !._q = LastList(Hn)])
              ELSE H2
    IN  Returned(H3, qs)

\* QuerySet.filter(*q, **filter_fields)
filter(H, self, q, kw) == RebindQ(H, self, q, kw, QFromKeywords("Q", kw))

\* QuerySet.exclude(*q_list, **filter_fields)
exclude(H, self, q_list, kw) ==
    RebindQ(H, self, [i \in 1..Len(q_list) |-> Q__invert__(q_list[i])], kw,
            Q__invert__(QFromKeywords("Q", kw)))

\* QuerySet.distinct
distinct(H, self) ==
    LET H1 == copy(H, self)
    IN  Returned(SetAttr(H1, LastObj(H1), [H1.objs[LastObj(H1)] EXCEPT !._distinct = TRUE]), LastObj(H1))

\* QuerySet.final
final(H, self, model_cls) ==
    IF ~model_cls.collapsing THEN Raised(H, "TypeError")
    ELSE LET H1 == copy(H, self)
         IN  Returned(SetAttr(H1, LastObj(H1), [H1.objs[LastObj(H1)] EXCEPT !._final = TRUE]),
                      LastObj(H1))

\* QuerySet.order_by(*field_names)
order_by(H, self, field_names) ==
    LET H1 == copy(H, self)
    IN  Returned(SetAttr(H1, LastObj(H1), [H1.objs[LastObj(H1)] EXCEPT !._order_by = field_names]),
                 LastObj(H1))

\* QuerySet.only(*field_names); AggregateQuerySet.only raises
only(H, self, field_names) ==
    IF H.objs[self].cls = "AggregateQuerySet" THEN Raised(H, "NotImplementedError")
    ELSE LET H1 == copy(H, self)
         IN  Returned(SetAttr(H1, LastObj(H1), [H1.objs[LastObj(H1)] EXCEPT !._fields = field_names]),
                      LastObj(H1))

\* QuerySet.extra_filter(raw)
extra_filter(H, self, raw) ==
    LET H1 == copy(H, self)
    IN  Returned(SetAttr(H1, LastObj(H1), [H1.objs[LastObj(H1)] EXCEPT !._extra = raw]), LastObj(H1))

\* QuerySet.join(query, *join_fields, inner_, label_, all_)
join(H, self, query, join_fields, inner_, label_, all_) ==
    LET H1 == copy(H, self)
        o == H1.objs[LastObj(H1)]
        o1 == [o EXCEPT !._join_fields = join_fields, !._join_query = query]
        o2 == IF label_ # <<>> THEN [o1 EXCEPT !._join_label = <<SP, "AS", SP>> \o label_] ELSE o1
        o3 == [o2 EXCEPT !._join_type = @ \o (IF all_ THEN <<"ALL", SP>> ELSE <<"ANY", SP>>)]
        o4 == [o3 EXCEPT !._join_type =
                   @ \o (IF inner_ THEN <<"INNER JOIN", SP>> ELSE <<"LEFT JOIN", SP>>)]
    IN  Returned(SetAttr(H1, LastObj(H1), o4), LastObj(H1))

\* QuerySet.array_join(*array, label): the conditional expression binds looser
\* than + and %, so the whole clause is '' without a label
array_join(H, self, array, label) ==
    LET joined == comma_join(array)
        H1 == copy(H, self)
        clause == IF label # <<>>
                  THEN <<"ARRAY JOIN", SP, "[">> \o joined \o <<"]">> \o <<SP, "AS", SP>> \o label
                  ELSE <<>>
    IN  Returned(SetAttr(H1, LastObj(H1), [H1.objs[LastObj(H1)] EXCEPT !._array = clause]),
                 LastObj(H1))

\* QuerySet.subquery(label)
subquery(H, self, label, model_cls) ==
    LET sql == as_sql(H, self, model_cls)
        H1 == QuerySet__init__(H)
        text == IF label # <<>> THEN <<"(">> \o sql.val \o <<")", SP, "AS", SP>> \o label
                ELSE <<"(">> \o sql.val \o <<")">>
    IN  IF sql.exc # "" THEN Raised(H, sql.exc)
        ELSE Returned(SetAttr(H1, LastObj(H1), [H1.objs[LastObj(H1)] EXCEPT !._subquery = text]),
                      LastObj(H1))

\* a slice bound: None or an integer
NoneInt == [none |-> TRUE, n |-> 0]
Int_(n) == [none |-> FALSE, n |-> n]

\* 2**63 - 1 at line 366, scaled to the largest integer TLC has
SliceStopDefault == 2147483647

\* x or d
OrDefault(x, d) == IF x.none \/ x.n = 0 THEN d ELSE x.n

\* QuerySet.__getitem__(s) for a slice s = [start, stop, step]
QuerySet__getitem__(H, self, s) ==
    IF ~(s.step.none \/ s.step.n = 1) THEN Raised(H, "AssertionError")
    ELSE LET start == OrDefault(s.start, 0)
             stop == OrDefault(s.stop, SliceStopDefault)
         IN  IF ~(start >= 0 /\ stop >= 0) THEN Raised(H, "AssertionError")
             ELSE IF ~(start <= stop) THEN Raised(H, "AssertionError")
             ELSE LET H1 == copy(H, self)
                  IN  Returned(SetAttr(H1, LastObj(H1),
                                       [H1.objs[LastObj(H1)] EXCEPT !._limits = <<start, stop - start>>]),
                               LastObj(H1))

NoPage == [number_of_objects |-> 0, pages_total |-> 0, number |-> 0, page_size |-> 0]

\* int(ceil(count / float(page_size)))
CeilDiv(count, page_size) == (count + page_size - 1) \div page_size

\* QuerySet.paginate(page_num, page_size), count being what self.count() returns;
\* yields the call's outcome with the Page built, the sliced queryset as obj
paginate(H, self, count, page_num, page_size) ==
    LET pages_total == CeilDiv(count, page_size)
        page == IF page_num = -1 THEN pages_total ELSE page_num
        offset == (page - 1) * page_size
        sliced == QuerySet__getitem__(H, self, [start |-> Int_(offset),
                                                stop |-> Int_(offset + page_size),
                                                step |-> NoneInt])
    IN  IF page_num # -1 /\ page_num < 1
        THEN [H |-> H, exc |-> "ValueError", obj |-> 0, page |-> NoPage]
        ELSE IF sliced.exc # ""
        THEN [H |-> H, exc |-> sliced.exc, obj |-> 0, page |-> NoPage]
        ELSE [H |-> sliced.H, exc |-> "", obj |-> sliced.obj,
              page |-> [number_of_objects |-> count, pages_total |-> pages_total,
                        number |-> page, page_size |-> page_size]]

\* QuerySet.aggregate(*args, **kwargs) and AggregateQuerySet.__init__: the new
\* object gets its own _q and _having lists; AggregateQuerySet.aggregate raises
aggregate(H, self, grouping_fields, calculated_fields) ==
    IF H.objs[self].cls = "AggregateQuerySet" THEN Raised(H, "NotImplementedError")
    ELSE IF calculated_fields = <<>> THEN Raised(H, "AssertionError")
    ELSE LET base_qs == H.objs[self]
             H1 == NewList(H, H.lists[base_qs._q])
             H2 == NewList(H1, <<>>)
             o == [QuerySetObject(LastList(H1)) EXCEPT
                      !.cls = "AggregateQuerySet",
                      !._fields = grouping_fields,
                      !._grouping_fields = grouping_fields,
                      !._calculated_fields = calculated_fields,
                      !._order_by = base_qs._order_by,
                      !._subquery = base_qs._subquery,
                      !._limits = base_qs._limits,
                      !._distinct = base_qs._distinct,
                      !._join_type = base_qs._join_type,
                      !._join_fields = base_qs._join_fields,
                      !._join_label = base_qs._join_label,
                      !._join_query = base_qs._join_query,
                      !._array = base_qs._array,
                      !._extra = base_qs._extra,
                      !._having = LastList(H2),
                      !._with = <<>>]
             H3 == NewObj(H2, o)
         IN  Returned(H3, LastObj(H3))

InSeq(x, seq) == \E i \in 1..Len(seq) : seq[i] = x

\* a variant of group_by that also projects the new grouping fields:
\* qs._fields = qs._grouping_fields = args
group_by_projecting(H, self, args) ==
    LET o == H.objs[self]
        known(name) == InSeq(name, o._fields)
                          \/ \E i \in 1..Len(o._calculated_fields) : o._calculated_fields[i].k = name
    IN  IF \E i \in 1..Len(args) : ~known(args[i]) THEN Raised(H, "AssertionError")
        ELSE LET H1 == copy(H, self)
             IN  Returned(SetAttr(H1, LastObj(H1),
                                  [H1.objs[LastObj(H1)] EXCEPT !._grouping_fields = args,
                                                               !._fields = args]),
                          LastObj(H1))

\* AggregateQuerySet.group_by(*args)
group_by(H, self, args) ==
    LET o == H.objs[self]
        known(name) == InSeq(name, o._fields)
                          \/ \E i \in 1..Len(o._calculated_fields) : o._calculated_fields[i].k = name
    IN  IF \E i \in 1..Len(args) : ~known(args[i]) THEN Raised(H, "AssertionError")
        ELSE LET H1 == copy(H, self)
             IN  Returned(SetAttr(H1, LastObj(H1),
                                  [H1.objs[LastObj(H1)] EXCEPT !._grouping_fields = args]),
                          LastObj(H1))

\* AggregateQuerySet.having(*q_list, **filter_fields): += on a list extends the
\* list object in place and binds qs._having to that same object
having(H, self, q_list, kw) ==
    LET H1 == copy(H, self)
        qs == LastObj(H1)
        ref == H1.objs[qs]._having
        H2 == IF q_list # <<>> THEN [H1 EXCEPT !.lists[ref] = @ \o q_list] ELSE H1
        H3 == IF kw # <<>> THEN [H2 EXCEPT !.lists[ref] = @ \o <<QFromKeywords("FBQ", kw)>>] ELSE H2
    IN  Returned(H3, qs)

\* qs = copy(self); qs._with = modifier
SetWith(H, self, modifier) ==
    LET H1 == copy(H, self)
    IN  Returned(SetAttr(H1, LastObj(H1), [H1.objs[LastObj(H1)] EXCEPT !._with = <<modifier>>]),
                 LastObj(H1))

\* AggregateQuerySet.with_rollup
with_rollup(H, self) == SetWith(H, self, "ROLLUP")

\* AggregateQuerySet.with_totals
with_totals(H, self) == SetWith(H, self, "TOTALS")

\* AggregateQuerySet.with_cube
with_cube(H, self) == SetWith(H, self, "CUBE")

-----------------------------------------------------------------------------
(* What the sessions share *)

EmptyHeap == [objs |-> <<>>, lists |-> <<>>]

NoArgs == [none |-> TRUE]
NoCall == [op |-> "", self |-> 0, args |-> NoArgs, exc |-> "", obj |-> 0, page |-> NoPage]

\* the call op(args) on self with outcome r
Call(op, self, args, r) ==
    [op |-> op, self |-> self, args |-> args, exc |-> r.exc, obj |-> r.obj, page |-> NoPage]

\* the queryset session has not begun
IdleCallers == cur = <<>> /\ hist = <<>>
IdleQuerySets == heap = EmptyHeap /\ ret = NoCall /\ IdleCallers

-----------------------------------------------------------------------------
(* The FOV session: a Q is built with the keyword keyA = value and another  *)
(* with the keyword keyB = value, then the FOV of each is rendered.         *)

EqName == <<"e","q">>
BetweenName == <<"b","e","t","w","e","e","n">>

NameChars == {"_", "g", "t"}
FieldNames == StringsUpTo(NameChars, MaxNameLen) \ {<<>>}

ScalarValues == {NoneValue, StrValue(<<>>), StrValue(<<"x">>)}
TupleValues == {TupleValue(a, b) : a \in ScalarValues, b \in ScalarValues}

\* a model class that declares every field name of the session
FovModels == {[table |-> <<"t">>, collapsing |-> FALSE, nullable |-> n,
               anyField |-> TRUE, fields |-> {}] : n \in BOOLEAN}

InitFov ==
    /\ model \in FovModels
    /\ keyA \in FieldNames
    /\ \/ keyB = keyA \o UU \o EqName /\ value \in ScalarValues
       \/ keyB = keyA \o UU \o BetweenName /\ value \in TupleValues
    /\ fovA = NoFov /\ fovB = NoFov
    /\ sqlA = NoResult /\ sqlB = NoResult
    /\ tree = Q("Q", <<>>)
    /\ IdleQuerySets

\* Q.__init__ with the keyword keyA = value: one FOV per keyword
BuildFovA ==
    /\ ~fovA.built
    /\ fovA' = _build_fov(keyA, value)
    /\ UNCHANGED <<model, keyA, keyB, value, fovB, sqlA, sqlB, tree, qsVars>>

\* Q.__init__ with the keyword keyB = value
BuildFovB ==
    /\ ~fovB.built
    /\ fovB' = _build_fov(keyB, value)
    /\ UNCHANGED <<model, keyA, keyB, value, fovA, sqlA, sqlB, tree, qsVars>>

\* fovA.to_sql(model_cls)
RenderFovA ==
    /\ fovA.built /\ sqlA = NoResult
    /\ sqlA' = FOV_to_sql(fovA, model)
    /\ UNCHANGED <<model, keyA, keyB, value, fovA, fovB, sqlB, tree, qsVars>>

\* fovB.to_sql(model_cls)
RenderFovB ==
    /\ fovB.built /\ sqlB = NoResult
    /\ sqlB' = FOV_to_sql(fovB, model)
    /\ UNCHANGED <<model, keyA, keyB, value, fovA, fovB, sqlA, tree, qsVars>>

NextFov == BuildFovA \/ BuildFovB \/ RenderFovA \/ RenderFovB

SpecFov == InitFov /\ [][NextFov]_vars

-----------------------------------------------------------------------------
(* The tree session: one tree is grown by &, | and ~ from leaf trees, each  *)
(* step combining the tree built so far with itself or with a fresh leaf.   *)

GName == <<"g">>

\* the model class of the tree and queryset sessions, with its declared fields
TreeModels == {[table |-> <<"t">>, collapsing |-> c, nullable |-> TRUE,
                anyField |-> FALSE, fields |-> {<<"g">>, <<"t">>}] : c \in BOOLEAN}

\* cls() and cls(g='x')
Leaves(cls) == {Q(cls, <<>>), Q(cls, <<_build_fov(GName, StrValue(<<"x">>))>>)}

IdleFov ==
    /\ keyA = <<>> /\ keyB = <<>> /\ value = NoneValue
    /\ fovA = NoFov /\ fovB = NoFov
    /\ sqlA = NoResult /\ sqlB = NoResult

InitTree ==
    /\ model \in {m \in TreeModels : ~m.collapsing}
    /\ tree \in Leaves("Q") \cup Leaves("NDEQ")
    /\ IdleFov
    /\ IdleQuerySets

\* the operand pairs of a step
Operands ==
    {<<tree, x>> : x \in Leaves(tree.cls)} \cup {<<x, tree>> : x \in Leaves(tree.cls)}
        \cup {<<tree, tree>>}

\* l & r
TreeAnd ==
    /\ Height(tree) < MaxHeight
    /\ \E p \in Operands : tree' = Q__and__(p[1], p[2])
    /\ UNCHANGED <<model, fovVars, qsVars>>

\* l | r
TreeOr ==
    /\ Height(tree) < MaxHeight
    /\ \E p \in Operands : tree' = Q__or__(p[1], p[2])
    /\ UNCHANGED <<model, fovVars, qsVars>>

\* ~tree
TreeInvert ==
    /\ tree' = Q__invert__(tree)
    /\ UNCHANGED <<model, fovVars, qsVars>>

NextTree == TreeAnd \/ TreeOr \/ TreeInvert

SpecTree == InitTree /\ [][NextTree]_vars

-----------------------------------------------------------------------------
(* C4 *)

IsComposition(q) == q._fovs = <<>> /\ q._l_child # NoChild /\ q._r_child # NoChild

\* the rendering of a child as its parent's to_sql obtains it
ChildSql(parent, child) ==
    IF parent.cls = "NDEQ" THEN to_sql_not_root(child, model) ELSE to_sql(child, model)

\* C4: a composition l & r or l | r rendered at the root, by Q.to_sql and by
\* NDEQ.to_sql, is '(' + l + ' ' + mode + ' ' + r + ')' of the renderings of its
\* children when neither is '1', and is the other child's rendering, with no
\* parentheses and no '1' conjunct, when one is '1'.
C4_RootComposition ==
    (IsComposition(tree) /\ ~tree._negate) =>
        LET l == ChildSql(tree, tree._l_child).val
            r == ChildSql(tree, tree._r_child).val
            root == to_sql(tree, model)
        IN  /\ root.exc = ""
            /\ (l # <<"1">> /\ r # <<"1">>) =>
                  root.val = <<"(">> \o l \o <<SP, tree._mode, SP>> \o r \o <<")">>
            /\ l = <<"1">> => root.val = r
            /\ (l # <<"1">> /\ r = <<"1">>) => root.val = l

\* an NDEQ composition of two compositions, each rendered in parentheses, is
\* rendered at the root in parentheses of its own
C4_Witness ==
    /\ IsComposition(tree) /\ ~tree._negate /\ tree.cls = "NDEQ"
    /\ IsComposition(tree._l_child) /\ IsComposition(tree._r_child)
    /\ is_in_parenthesis(to_sql_not_root(tree._l_child, model).val)
    /\ is_in_parenthesis(to_sql_not_root(tree._r_child, model).val)
    /\ to_sql(tree, model).val =
           <<"(">> \o to_sql_not_root(tree._l_child, model).val \o <<SP, tree._mode, SP>>
               \o to_sql_not_root(tree._r_child, model).val \o <<")">>

-----------------------------------------------------------------------------
(* C5 *)

\* C5: a tree whose negation flag is set renders as 'NOT (' + s + ')', s being
\* the rendering of the same tree with the flag cleared, whatever its shape; a
\* negated empty tree does not render as '1'.
C5_NegationWraps ==
    tree._negate =>
        to_sql(tree, model) = Ok(NotWrap(to_sql([tree EXCEPT !._negate = FALSE], model).val))

-----------------------------------------------------------------------------
(* The queryset session: builder methods are called on any queryset made so *)
(* far, each call adding the queryset it returns.  The model class has the  *)
(* CollapsingMergeTree engine or another one.                               *)

TName == <<"t">>
NName == <<"n">>

\* Q(t='x')
QT == Q("Q", <<_build_fov(TName, StrValue(<<"x">>))>>)
\* the keywords g='x'
KwG == << [key |-> GName, value |-> StrValue(<<"x">>)] >>
\* FBQ(n='x')
HN == Q("FBQ", <<_build_fov(NName, StrValue(<<"x">>))>>)

\* positional trees and keywords of a filter or exclude call
FilterArgs == {[q |-> q, kw |-> kw] : q \in {<<>>, <<QT>>, <<Q("Q", <<>>)>>}, kw \in {<<>>, KwG}}
\* positional trees and keywords of a having call
HavingArgs == {[q |-> q, kw |-> kw] : q \in {<<>>, <<HN>>}, kw \in {<<>>, KwG}}

\* aggregate('g', n='count()')
AggGrouping == <<GName>>
AggCalculated == << [k |-> NName, v |-> <<"count()">>] >>

Objs == 1..Len(heap.objs)
Room == Len(heap.objs) < MaxObjs
IsAggregate(H, i) == H.objs[i].cls = "AggregateQuerySet"

InitQuerySet ==
    /\ model \in TreeModels
    /\ heap = QuerySet__init__(EmptyHeap)
    /\ ret = NoCall
    /\ tree = Q("Q", <<>>)
    /\ IdleFov
    /\ IdleCallers

\* self.filter(*q, **kw)
Filter ==
    /\ Room
    /\ \E self \in Objs, a \in FilterArgs :
          LET r == filter(heap, self, a.q, a.kw)
          IN  heap' = r.H /\ ret' = Call("filter", self, a, r)
    /\ UNCHANGED <<model, fovVars, tree, callerVars>>

\* self.exclude(*q, **kw)
Exclude ==
    /\ Room
    /\ \E self \in Objs, a \in FilterArgs :
          LET r == exclude(heap, self, a.q, a.kw)
          IN  heap' = r.H /\ ret' = Call("exclude", self, a, r)
    /\ UNCHANGED <<model, fovVars, tree, callerVars>>

\* self.final()
Final ==
    /\ Room
    /\ \E self \in Objs :
          LET r == final(heap, self, model)
          IN  heap' = r.H /\ ret' = Call("final", self, NoArgs, r)
    /\ UNCHANGED <<model, fovVars, tree, callerVars>>

\* self.aggregate('g', n='count()')
Aggregate ==
    /\ Room
    /\ \E self \in Objs :
          LET r == aggregate(heap, self, AggGrouping, AggCalculated)
          IN  heap' = r.H /\ ret' = Call("aggregate", self, NoArgs, r)
    /\ UNCHANGED <<model, fovVars, tree, callerVars>>

\* the arguments of a join call: the model class u as the target, the field g,
\* with the default kind and strictness or with INNER and ANY, with a label or none
JoinArgs ==
    {[query |-> JoinModel(<<"u">>), join_fields |-> <<GName>>, inner_ |-> k, label_ |-> l, all_ |-> ~k]
        : k \in BOOLEAN, l \in {<<>>, <<"j">>}}

\* self.join(query, *join_fields, inner_=, label_=, all_=)
Join_ ==
    /\ Room
    /\ \E self \in Objs, a \in JoinArgs :
          LET r == join(heap, self, a.query, a.join_fields, a.inner_, a.label_, a.all_)
          IN  heap' = r.H /\ ret' = Call("join", self, a, r)
    /\ UNCHANGED <<model, fovVars, tree, callerVars>>

\* the arguments of an array_join call: the items g, t with a label or none
ArrayJoinArgs == {[array |-> <<GName, TName>>, label |-> l] : l \in {<<>>, <<"j">>}}

\* self.array_join(*array, label=)
ArrayJoin ==
    /\ Room
    /\ \E self \in Objs, a \in ArrayJoinArgs :
          LET r == array_join(heap, self, a.array, a.label)
          IN  heap' = r.H /\ ret' = Call("array_join", self, a, r)
    /\ UNCHANGED <<model, fovVars, tree, callerVars>>

\* the raw fragment 'g > 0'
RawG == <<"g", SP, ">", SP, "0">>

\* self.extra_filter('g > 0')
ExtraFilter ==
    /\ Room
    /\ \E self \in Objs :
          LET r == extra_filter(heap, self, RawG)
          IN  heap' = r.H /\ ret' = Call("extra_filter", self, NoArgs, r)
    /\ UNCHANGED <<model, fovVars, tree, callerVars>>

\* self.distinct()
Distinct ==
    /\ Room
    /\ \E self \in Objs :
          LET r == distinct(heap, self)
          IN  heap' = r.H /\ ret' = Call("distinct", self, NoArgs, r)
    /\ UNCHANGED <<model, fovVars, tree, callerVars>>

\* self.order_by('-g')
OrderBy ==
    /\ Room
    /\ \E self \in Objs :
          LET r == order_by(heap, self, << <<"-", "g">> >>)
          IN  heap' = r.H /\ ret' = Call("order_by", self, NoArgs, r)
    /\ UNCHANGED <<model, fovVars, tree, callerVars>>

\* self[1:2]
GetItem ==
    /\ Room
    /\ \E self \in Objs :
          LET r == QuerySet__getitem__(heap, self, [start |-> Int_(1), stop |-> Int_(2), step |-> NoneInt])
          IN  heap' = r.H /\ ret' = Call("__getitem__", self, NoArgs, r)
    /\ UNCHANGED <<model, fovVars, tree, callerVars>>

Next ==
    \/ Filter \/ Exclude \/ Final \/ Aggregate
    \/ Join_ \/ ArrayJoin \/ ExtraFilter \/ Distinct \/ OrderBy \/ GetItem

Spec == InitQuerySet /\ [][Next]_vars

-----------------------------------------------------------------------------
(* C1 *)

\* as_sql and conditions_as_sql of every queryset of H are the same in H2
SameRenderings(H, H2) ==
    \A i \in 1..Len(H.objs) :
        /\ as_sql(H2, i, model) = as_sql(H, i, model)
        /\ conditions_as_sql(H2, i, model) = conditions_as_sql(H, i, model)

\* the trees a filter or exclude call adds
AddedTrees(call) ==
    LET pos == IF call.op = "exclude"
               THEN [i \in 1..Len(call.args.q) |-> Q__invert__(call.args.q[i])]
               ELSE call.args.q
        kwtree == IF call.op = "exclude" THEN Q__invert__(QFromKeywords("Q", call.args.kw))
                  ELSE QFromKeywords("Q", call.args.kw)
    IN  pos \o (IF call.args.kw # <<>> THEN <<kwtree>> ELSE <<>>)

\* C1: a filter() or exclude() call, with Q arguments, keywords or both, leaves
\* as_sql and conditions_as_sql of its receiver, and of every other queryset,
\* as they were; the returned queryset alone carries the receiver's conditions
\* followed by the added ones.
C1_FilterExcludeFrame ==
    [][ret'.op \in {"filter", "exclude"} =>
          /\ ret'.exc = ""
          /\ SameRenderings(heap, heap')
          /\ heap'.lists[heap'.objs[ret'.obj]._q] =
                 heap.lists[heap.objs[ret'.self]._q] \o AddedTrees(ret')]_vars

\* a receiver that was filtered twice: two querysets came from it, each with a
\* WHERE body of its own, and the receiver still renders WHERE 1
C1_Witness ==
    /\ ret.op \in {"filter", "exclude"} /\ ret.self = 1 /\ ret.obj = 3
    /\ conditions_as_sql(heap, 1, model) = Ok(<<"1">>)
    /\ conditions_as_sql(heap, 2, model) # Ok(<<"1">>)
    /\ conditions_as_sql(heap, 3, model) # Ok(<<"1">>)
    /\ conditions_as_sql(heap, 3, model) # conditions_as_sql(heap, 2, model)
    /\ heap.objs[2]._q # heap.objs[1]._q

-----------------------------------------------------------------------------
(* C10 *)

Contains(text, atom) == \E i \in 1..Len(text) : text[i] = atom

\* C10: final() on a model whose engine is not CollapsingMergeTree raises
\* TypeError and makes no queryset; on a CollapsingMergeTree model it returns a
\* queryset whose SQL has the FINAL modifier, and the receiver renders as before.
C10_Final ==
    [][ret'.op = "final" =>
          IF ~model.collapsing
          THEN ret'.exc = "TypeError" /\ heap' = heap
          ELSE /\ ret'.exc = ""
               /\ Contains(as_sql(heap', ret'.obj, model).val, "FINAL")
               /\ as_sql(heap', ret'.self, model) = as_sql(heap, ret'.self, model)]_vars

-----------------------------------------------------------------------------
(* The aggregate session: the methods of AggregateQuerySet are called on    *)
(* the aggregate querysets made so far, the first being                     *)
(* QuerySet(model).aggregate('g', n='count()') or                           *)
(* QuerySet(model).aggregate('g', 't', n='count()').                        *)

BaseAggregate == aggregate(QuerySet__init__(EmptyHeap), 1, AggGrouping, AggCalculated)
\* QuerySet(model).aggregate('g', 't', n='count()')
BaseAggregateGT == aggregate(QuerySet__init__(EmptyHeap), 1, <<GName, TName>>, AggCalculated)

Aggregates == {i \in Objs : IsAggregate(heap, i)}
RoomAgg == Len(heap.objs) < MaxAggObjs

\* group_by arguments: none, a grouping field, a calculated field, a name that is
\* unknown to one of the bases, a calculated field with a grouping field
GroupByArgs == {<<>>, <<GName>>, <<NName>>, <<TName>>, <<NName, GName>>}

InitAggregate ==
    /\ model \in TreeModels
    /\ heap \in {BaseAggregate.H, BaseAggregateGT.H}
    /\ ret = NoCall
    /\ tree = Q("Q", <<>>)
    /\ IdleFov
    /\ IdleCallers

\* self.having(*q, **kw)
Having ==
    /\ RoomAgg
    /\ \E self \in Aggregates, a \in HavingArgs :
          LET r == having(heap, self, a.q, a.kw)
          IN  heap' = r.H /\ ret' = Call("having", self, a, r)
    /\ UNCHANGED <<model, fovVars, tree, callerVars>>

\* self.group_by(*args)
GroupBy ==
    /\ RoomAgg
    /\ \E self \in Aggregates, a \in GroupByArgs :
          LET r == group_by(heap, self, a)
          IN  heap' = r.H /\ ret' = Call("group_by", self, [q |-> a, kw |-> <<>>], r)
    /\ UNCHANGED <<model, fovVars, tree, callerVars>>

\* self.with_rollup()
WithRollup ==
    /\ RoomAgg
    /\ \E self \in Aggregates :
          LET r == with_rollup(heap, self)
          IN  heap' = r.H /\ ret' = Call("with_rollup", self, NoArgs, r)
    /\ UNCHANGED <<model, fovVars, tree, callerVars>>

\* self.with_totals()
WithTotals ==
    /\ RoomAgg
    /\ \E self \in Aggregates :
          LET r == with_totals(heap, self)
          IN  heap' = r.H /\ ret' = Call("with_totals", self, NoArgs, r)
    /\ UNCHANGED <<model, fovVars, tree, callerVars>>

\* self.with_cube()
WithCube ==
    /\ RoomAgg
    /\ \E self \in Aggregates :
          LET r == with_cube(heap, self)
          IN  heap' = r.H /\ ret' = Call("with_cube", self, NoArgs, r)
    /\ UNCHANGED <<model, fovVars, tree, callerVars>>

NextAggregate == Having \/ GroupBy \/ WithRollup \/ WithTotals \/ WithCube

SpecAggregate == InitAggregate /\ [][NextAggregate]_vars

-----------------------------------------------------------------------------
(* C2 *)

AggregateBuilders == {"having", "group_by", "with_rollup", "with_totals", "with_cube"}

\* C2: having(), group_by(), with_rollup(), with_totals() and with_cube() return
\* a new queryset and leave the receiver as it was: its HAVING list, grouping
\* fields, modifier and SQL are the same after the call as before it.
C2_AggregateBuildersFrame ==
    [][(ret'.op \in AggregateBuilders /\ ret'.exc = "") =>
          LET a == ret'.self
          IN  /\ ret'.obj = Len(heap.objs) + 1
              /\ heap'.lists[heap'.objs[a]._having] = heap.lists[heap.objs[a]._having]
              /\ heap'.objs[a]._grouping_fields = heap.objs[a]._grouping_fields
              /\ heap'.objs[a]._with = heap.objs[a]._with
              /\ as_sql(heap', a, model) = as_sql(heap, a, model)]_vars

-----------------------------------------------------------------------------
(* The callers session: two callers start from one base queryset, the       *)
(* aggregate of the aggregate session, and each derives its own queryset by *)
(* builder calls on the queryset it holds; the calls interleave freely.     *)

Callers == {"A", "B"}
BaseObj == BaseAggregate.obj

\* join(U, 'g'): a LEFT JOIN with the model class of table u
JoinU == [query |-> JoinModel(<<"u">>), join_fields |-> <<GName>>, inner_ |-> FALSE,
          label_ |-> <<>>, all_ |-> TRUE]

\* what a caller may call next
CallerFilterArgs == {[q |-> <<QT>>, kw |-> <<>>], [q |-> <<>>, kw |-> KwG]}
CallerHavingArgs == {[q |-> <<HN>>, kw |-> <<>>], [q |-> <<>>, kw |-> KwG]}

\* the builder call on self
ApplyCall(H, self, call) ==
    CASE call.op = "filter" -> filter(H, self, call.args.q, call.args.kw)
      [] call.op = "exclude" -> exclude(H, self, call.args.q, call.args.kw)
      [] call.op = "having" -> having(H, self, call.args.q, call.args.kw)
      [] call.op = "join" -> join(H, self, call.args.query, call.args.join_fields,
                                  call.args.inner_, call.args.label_, call.args.all_)

InitCallers ==
    /\ model \in TreeModels
    /\ heap = BaseAggregate.H
    /\ ret = NoCall
    /\ cur = [c \in Callers |-> BaseObj]
    /\ hist = [c \in Callers |-> <<>>]
    /\ tree = Q("Q", <<>>)
    /\ IdleFov

\* caller c calls op(args) on the queryset it holds and keeps the result: the
\* values of heap, ret, cur and hist after the call
CallerStep(c, op, args) ==
    LET call == [op |-> op, args |-> args]
        r == ApplyCall(heap, cur[c], call)
    IN  [heap |-> r.H,
         ret |-> Call(op, cur[c], args, r),
         cur |-> [cur EXCEPT ![c] = r.obj],
         hist |-> [hist EXCEPT ![c] = Append(@, call)]]

CanCall(c) == Len(hist[c]) < MaxCalls

\* a caller calls filter
CallerFilter ==
    /\ \E c \in Callers, a \in CallerFilterArgs :
          /\ CanCall(c)
          /\ LET n == CallerStep(c, "filter", a)
             IN  heap' = n.heap /\ ret' = n.ret /\ cur' = n.cur /\ hist' = n.hist
    /\ UNCHANGED <<model, fovVars, tree>>

\* a caller calls exclude
CallerExclude ==
    /\ \E c \in Callers, a \in CallerFilterArgs :
          /\ CanCall(c)
          /\ LET n == CallerStep(c, "exclude", a)
             IN  heap' = n.heap /\ ret' = n.ret /\ cur' = n.cur /\ hist' = n.hist
    /\ UNCHANGED <<model, fovVars, tree>>

\* a caller calls having
CallerHaving ==
    /\ \E c \in Callers, a \in CallerHavingArgs :
          /\ CanCall(c)
          /\ LET n == CallerStep(c, "having", a)
             IN  heap' = n.heap /\ ret' = n.ret /\ cur' = n.cur /\ hist' = n.hist
    /\ UNCHANGED <<model, fovVars, tree>>

\* a caller calls join
CallerJoin ==
    /\ \E c \in Callers :
          /\ CanCall(c)
          /\ LET n == CallerStep(c, "join", JoinU)
             IN  heap' = n.heap /\ ret' = n.ret /\ cur' = n.cur /\ hist' = n.hist
    /\ UNCHANGED <<model, fovVars, tree>>

NextCallers == CallerFilter \/ CallerExclude \/ CallerHaving \/ CallerJoin

SpecCallers == InitCallers /\ [][NextCallers]_vars

-----------------------------------------------------------------------------
(* C3 *)

RECURSIVE Replay(_, _, _)
\* the calls made one after the other from self, nobody else calling
Replay(H, self, calls) ==
    IF calls = <<>> THEN Returned(H, self)
    ELSE LET r == ApplyCall(H, self, Head(calls))
         IN  Replay(r.H, r.obj, Tail(calls))

\* the SQL of the queryset caller c would hold had it made its calls alone
AloneSql(c) ==
    LET r == Replay(BaseAggregate.H, BaseObj, hist[c])
    IN  as_sql(r.H, r.obj, model)

\* C3: whatever the interleaving of the two callers' builder calls, the queryset
\* each caller holds renders as it would had that caller made its calls alone:
\* nothing the other caller added appears in it.
C3_CallersDoNotInterfere ==
    \A c \in Callers : as_sql(heap, cur[c], model) = AloneSql(c)

-----------------------------------------------------------------------------
(* The slicing session: a queryset is sliced, or paginate() is called on it *)
(* with the row count the database reports.                                 *)

SliceBounds == {NoneInt} \cup {Int_(n) : n \in -1..MaxIndex}
SliceSteps == {NoneInt, Int_(1), Int_(2)}
PageNumbers == -2..(MaxCount + 1)

InitSlice ==
    /\ model \in TreeModels
    /\ heap = QuerySet__init__(EmptyHeap)
    /\ ret = NoCall
    /\ tree = Q("Q", <<>>)
    /\ IdleFov
    /\ IdleCallers

\* self[start:stop:step]
Slice ==
    /\ Room
    /\ \E self \in Objs, start \in SliceBounds, stop \in SliceBounds, step \in SliceSteps :
          LET s == [start |-> start, stop |-> stop, step |-> step]
              r == QuerySet__getitem__(heap, self, s)
          IN  heap' = r.H /\ ret' = Call("__getitem__", self, s, r)
    /\ UNCHANGED <<model, fovVars, tree, callerVars>>

\* self.paginate(page_num, page_size), the database counting count rows
Paginate ==
    /\ Room
    /\ \E self \in Objs, count \in 0..MaxCount, page_num \in PageNumbers,
          page_size \in 1..MaxPageSize :
          LET r == paginate(heap, self, count, page_num, page_size)
          IN  /\ heap' = r.H
              /\ ret' = [Call("paginate", self,
                              [count |-> count, page_num |-> page_num, page_size |-> page_size],
                              r) EXCEPT !.page = r.page]
    /\ UNCHANGED <<model, fovVars, tree, callerVars>>

NextSlice == Slice \/ Paginate

SpecSlice == InitSlice /\ [][NextSlice]_vars

-----------------------------------------------------------------------------
(* C8 *)

\* C8: qs[start:stop] with integer start and stop, 0 among them: when
\* 0 <= start <= stop and the step is None or 1 the result has the limits
\* (start, stop - start); a negative index, start > stop or another step fails.
C8_SliceLimits ==
    (ret.op = "__getitem__" /\ ~ret.args.start.none /\ ~ret.args.stop.none) =>
        LET start == ret.args.start.n
            stop == ret.args.stop.n
            stepOk == ret.args.step.none \/ ret.args.step.n = 1
        IN  IF 0 <= start /\ start <= stop /\ stepOk
            THEN ret.exc = "" /\ heap.objs[ret.obj]._limits = <<start, stop - start>>
            ELSE ret.exc # ""

-----------------------------------------------------------------------------
(* C9 *)

\* C9: paginate(page_num, page_size) has pages_total = ceil(count / page_size)
\* and resolves page_num = -1 to pages_total; a resolved page number below 1 or
\* above pages_total raises the invalid page number ValueError; otherwise the
\* page is the slice of offset (page_num - 1) * page_size and limit page_size,
\* and the number returned is the resolved page number.
C9_Paginate ==
    ret.op = "paginate" =>
        LET count == ret.args.count
            page_size == ret.args.page_size
            pages_total == IF count % page_size = 0 THEN count \div page_size
                           ELSE count \div page_size + 1
            number == IF ret.args.page_num = -1 THEN pages_total ELSE ret.args.page_num
        IN  IF number < 1 \/ number > pages_total
            THEN ret.exc = "ValueError"
            ELSE /\ ret.exc = ""
                 /\ heap.objs[ret.obj]._limits = <<(number - 1) * page_size, page_size>>
                 /\ ret.page.number = number
                 /\ ret.page.pages_total = pages_total

-----------------------------------------------------------------------------
(* C6 *)

IsEqPair == keyB = keyA \o UU \o EqName

\* the part of a name after its last '__' is a registered operator name
EndsInOperator(f) ==
    LET i == RFindUU(f)
    IN  i > 0 /\ SubSeq(f, i + 2, Len(f)) \in OperatorNames

SameResolution ==
    /\ fovA._field_name = keyA
    /\ fovB._field_name = keyA
    /\ fovA._operator = _operators(EqName)
    /\ fovB._operator = _operators(EqName)

SamePredicate == (sqlA # NoResult /\ sqlB # NoResult) => sqlA = sqlB

\* C6 as stated: for every field name f, also one that ends in '__' and a
\* registered operator name, the keys f and f__eq resolve to the field f and the
\* equality operator, and render the same predicate.
C6_AllNames ==
    (IsEqPair /\ fovA.built /\ fovB.built) => (SameResolution /\ SamePredicate)

\* C6 amended: for every field name f whose part after the last '__' is not a
\* registered operator name (so every name without '__', and names such as g__t),
\* the keys f and f__eq resolve to the field f and the equality operator, and
\* render the same predicate.
C6_NamesNotEndingInOperator ==
    (IsEqPair /\ ~EndsInOperator(keyA) /\ fovA.built /\ fovB.built)
        => (SameResolution /\ SamePredicate)

\* both keys of a name that contains '__' with an unregistered suffix were built
\* and rendered to a predicate
C6_Witness ==
    /\ IsEqPair /\ RFindUU(keyA) > 1 /\ ~EndsInOperator(keyA)
    /\ fovA.built /\ fovB.built
    /\ sqlA.exc = "" /\ sqlB.exc = "" /\ sqlA.val # <<>> /\ sqlA = sqlB

-----------------------------------------------------------------------------
(* C7 *)

IsBetweenPair == keyB = keyA \o UU \o BetweenName

\* a bound is absent when it is None or the empty string
Absent(b) == b.t = "None" \/ (b.t = "str" /\ b.s = <<>>)

Literal(b) == <<"'">> \o b.s \o <<"'">>

\* C7: BetweenOperator.to_sql on (lo, hi) renders 'f BETWEEN lo AND hi' when both
\* bounds are present, 'f >= lo' when only lo is, 'f <= hi' when only hi is, and
\* raises when both are absent; it never returns None.
C7_BetweenForms ==
    (IsBetweenPair /\ sqlB # NoResult) =>
        LET lo == value.items[1]
            hi == value.items[2]
        IN  /\ sqlB.val # PyNone
            /\ (~Absent(lo) /\ ~Absent(hi)) =>
                  sqlB = Ok(keyA \o <<SP, "BETWEEN", SP>> \o Literal(lo) \o <<SP, "AND", SP>> \o Literal(hi))
            /\ (~Absent(lo) /\ Absent(hi)) => sqlB = Ok(keyA \o <<SP, ">=", SP>> \o Literal(lo))
            /\ (Absent(lo) /\ ~Absent(hi)) => sqlB = Ok(keyA \o <<SP, "<=", SP>> \o Literal(hi))
            /\ (Absent(lo) /\ Absent(hi)) => sqlB.exc # ""

-----------------------------------------------------------------------------
(* C11 *)

\* the least index at which pat occurs in text, 0 when it does not occur
Find(text, pat) ==
    LET at == {i \in 1..(Len(text) - Len(pat) + 1) : SubSeq(text, i, i + Len(pat) - 1) = pat}
    IN  IF at = {} THEN 0 ELSE CHOOSE i \in at : \A j \in at : i <= j

\* the text of a statement from the end of the keyword kw to the end of its line
\* (the whole rest when no line follows), <<>> when the statement has no kw
Clause(sql, kw) ==
    LET k == Find(sql, kw)
        rest == SubSeq(sql, k + Len(kw), Len(sql))
        e == Find(rest, <<NL>>)
    IN  IF k = 0 THEN <<>>
        ELSE IF e = 0 THEN rest ELSE SubSeq(rest, 1, e - 1)

Projection(sql) == Clause(sql, <<"SELECT", SP>>)
GroupByClause(sql) == Clause(sql, <<NL, "GROUP BY", SP>>)

\* 'expr AS alias' for every calculated field of the aggregate session
CalculatedTexts == [i \in 1..Len(AggCalculated) |->
                       AggCalculated[i].v \o <<SP, "AS", SP>> \o AggCalculated[i].k]

\* the grouping fields the session's aggregate() call was given
GivenGrouping == heap.objs[BaseObj]._grouping_fields

\* C11 as claimed: every aggregate queryset reached by aggregate() and group_by()
\* calls projects its current grouping fields followed by 'expr AS alias' for
\* every calculated field, and its GROUP BY clause lists the same fields.
C11_ProjectsCurrentGrouping ==
    \A i \in Aggregates :
        LET sql == as_sql(heap, i, model)
            current == heap.objs[i]._grouping_fields
        IN  /\ sql.exc = ""
            /\ Projection(sql.val) = comma_join(current \o CalculatedTexts)
            /\ GroupByClause(sql.val) = comma_join(current)

\* C11 as amended: every such queryset projects the grouping fields given to
\* aggregate() followed by 'expr AS alias' for every calculated field; its
\* GROUP BY clause lists its current grouping fields, which are those given to
\* aggregate() until a group_by() call replaces them by its arguments, and is
\* absent when there are none.
C11_ProjectsGivenGrouping ==
    /\ \A i \in Aggregates :
           LET sql == as_sql(heap, i, model)
           IN  /\ sql.exc = ""
               /\ Projection(sql.val) = comma_join(GivenGrouping \o CalculatedTexts)
               /\ GroupByClause(sql.val) = comma_join(heap.objs[i]._grouping_fields)
               /\ (heap.objs[i]._grouping_fields = <<>>) = (Find(sql.val, <<"GROUP BY">>) = 0)
    /\ (ret.op = "group_by" /\ ret.exc = "") =>
           heap.objs[ret.obj]._grouping_fields = ret.args.q
    /\ (ret.op \in AggregateBuilders \ {"group_by"} /\ ret.exc = "") =>
           heap.objs[ret.obj]._grouping_fields = heap.objs[ret.self]._grouping_fields

\* aggregate('g', 't', n='count()').group_by('n', 'g') projects g, t and
\* count() AS n and groups by n, g
C11_Witness ==
    /\ ret.op = "group_by" /\ ret.exc = "" /\ ret.args.q = <<NName, GName>>
    /\ GivenGrouping = <<GName, TName>>
    /\ as_sql(heap, BaseObj, model).val =
           <<"SELECT", SP, "g", ",", SP, "t", ",", SP, "count()", SP, "AS", SP, "n", NL,
             "FROM", SP, "t", NL, NL, NL, "WHERE", SP, "1", NL,
             "GROUP BY", SP, "g", ",", SP, "t">>
    /\ Projection(as_sql(heap, ret.obj, model).val) =
           <<"g", ",", SP, "t", ",", SP, "count()", SP, "AS", SP, "n">>
    /\ GroupByClause(as_sql(heap, ret.obj, model).val) = <<"n", ",", SP, "g">>

-----------------------------------------------------------------------------
(* The NDEQ session: an NDEQ tree is grown by &, | and ~, as in the tree    *)
(* session, from a leaf on the field g or on the field t.                   *)

\* NDEQ(g='x') and NDEQ(t='x')
NdeqLeaves == {Q("NDEQ", <<_build_fov(f, StrValue(<<"x">>))>>) : f \in {GName, TName}}

InitNdeq ==
    /\ model \in {m \in TreeModels : ~m.collapsing}
    /\ tree \in NdeqLeaves
    /\ IdleFov
    /\ IdleQuerySets

SpecNdeq == InitNdeq /\ [][NextTree]_vars

-----------------------------------------------------------------------------
(* C12 *)

\* a rendering without its spaces
Tokens(sql) == SelectSeq(sql, LAMBDA a : a # SP)

\* the end of the predicate that starts at s[i]: the index of the next AND, OR
\* or closing parenthesis, Len(s) + 1 when there is none
RECURSIVE PredicateEnd(_, _)
PredicateEnd(s, i) ==
    IF i > Len(s) \/ s[i] \in {"AND", "OR", ")"} THEN i ELSE PredicateEnd(s, i + 1)

\* The value of the SQL boolean expression that starts at s[i], read with NOT
\* binding tighter than AND and AND tighter than OR, the predicate on field f
\* having the value val[f]: [v, i] is the value and the index after the part read.
RECURSIVE SqlOr(_, _, _)
RECURSIVE SqlAnd(_, _, _)
RECURSIVE SqlNot(_, _, _)
RECURSIVE SqlOrRest(_, _, _)
RECURSIVE SqlAndRest(_, _, _)

SqlNot(s, i, val) ==
    IF s[i] = "NOT"
    THEN LET r == SqlNot(s, i + 1, val) IN [v |-> ~r.v, i |-> r.i]
    ELSE IF s[i] = "("
    THEN LET r == SqlOr(s, i + 1, val) IN [v |-> r.v, i |-> r.i + 1]
    ELSE [v |-> val[s[i]], i |-> PredicateEnd(s, i)]

SqlAndRest(s, l, val) ==
    IF l.i <= Len(s) /\ s[l.i] = "AND"
    THEN LET r == SqlNot(s, l.i + 1, val)
         IN  SqlAndRest(s, [v |-> l.v /\ r.v, i |-> r.i], val)
    ELSE l

SqlAnd(s, i, val) == SqlAndRest(s, SqlNot(s, i, val), val)

SqlOrRest(s, l, val) ==
    IF l.i <= Len(s) /\ s[l.i] = "OR"
    THEN LET r == SqlAnd(s, l.i + 1, val)
         IN  SqlOrRest(s, [v |-> l.v \/ r.v, i |-> r.i], val)
    ELSE l

SqlOr(s, i, val) == SqlOrRest(s, SqlAnd(s, i, val), val)

\* the value a rendering denotes
Denotes(sql, val) == SqlOr(Tokens(sql), 1, val).v

\* a tree that adds nothing to a composition: an empty tree, or a composition of
\* two such trees
RECURSIVE Neutral(_)
Neutral(q) ==
    /\ q._fovs = <<>> /\ ~q._negate
    /\ IsComposition(q) => (Neutral(q._l_child) /\ Neutral(q._r_child))

\* the value of the tree itself: its conditions joined by its mode, or its two
\* children under its mode, a neutral child being the identity, negated when
\* the flag is set
RECURSIVE TreeValue(_, _)
TreeValue(q, val) ==
    LET leaf == IF q._mode = "AND"
                THEN \A i \in 1..Len(q._fovs) : val[q._fovs[i]._field_name[1]]
                ELSE \E i \in 1..Len(q._fovs) : val[q._fovs[i]._field_name[1]]
        l == TreeValue(q._l_child, val)
        r == TreeValue(q._r_child, val)
        plain == IF q._fovs # <<>> THEN leaf
                 ELSE IF ~IsComposition(q) THEN TRUE
                 ELSE IF Neutral(q._l_child) THEN r
                 ELSE IF Neutral(q._r_child) THEN l
                 ELSE IF q._mode = "AND" THEN l /\ r ELSE l \/ r
    IN  IF q._negate THEN ~plain ELSE plain

\* the same tree built from Q nodes
RECURSIVE AsQ(_)
AsQ(q) ==
    IF IsComposition(q)
    THEN [q EXCEPT !.cls = "Q", !._l_child = AsQ(q._l_child), !._r_child = AsQ(q._r_child)]
    ELSE [q EXCEPT !.cls = "Q"]

Valuations == [{"g", "t"} -> BOOLEAN]

\* C12: what NDEQ.to_sql renders for a tree of NDEQ nodes denotes, with NOT
\* binding tighter than AND and AND tighter than OR, the same boolean expression
\* as the tree itself and as the Q.to_sql rendering of the same tree.
C12_NdeqDenotesTree ==
    LET ndeq == to_sql(tree, model)
        q == to_sql(AsQ(tree), model)
    IN  /\ ndeq.exc = "" /\ q.exc = ""
        /\ \A val \in Valuations :
              /\ Denotes(ndeq.val, val) = TreeValue(tree, val)
              /\ Denotes(ndeq.val, val) = Denotes(q.val, val)

\* the fully parenthesized rendering of Q.to_sql denotes the tree
QDenotesTree ==
    \A val \in Valuations : Denotes(to_sql(AsQ(tree), model).val, val) = TreeValue(tree, val)

-----------------------------------------------------------------------------
(* C13 *)

\* the line of a statement that holds the keyword kw, <<>> when none does
LineOf(sql, kw) ==
    LET k == Find(sql, <<kw>>)
        before == {i \in 1..k : sql[i] = NL}
        first == IF before = {} THEN 1 ELSE 1 + CHOOSE i \in before : \A j \in before : j <= i
        after == {i \in k..Len(sql) : sql[i] = NL}
        last == IF after = {} THEN Len(sql) ELSE (CHOOSE i \in after : \A j \in after : i <= j) - 1
    IN  IF k = 0 THEN <<>> ELSE SubSeq(sql, first, last)

\* the words of a clause, the FINAL modifier that may end its line left out
Words(text) == SelectSeq(text, LAMBDA a : a \notin {SP, "FINAL"})

\* C13: the statement of qs.aggregate(...) has the source, the join clause, the
\* array-join clause, the FINAL modifier, the WHERE body, the DISTINCT flag, the
\* ordering and the limits of the statement of qs.
C13_AggregateCarriesClauses ==
    [][(ret'.op = "aggregate" /\ ret'.exc = "") =>
          LET base == as_sql(heap, ret'.self, model).val
              agg == as_sql(heap', ret'.obj, model).val
          IN  /\ Words(LineOf(agg, "FROM")) = Words(LineOf(base, "FROM"))
              /\ Words(LineOf(agg, "USING")) = Words(LineOf(base, "USING"))
              /\ Words(LineOf(agg, "ARRAY JOIN")) = Words(LineOf(base, "ARRAY JOIN"))
              /\ Contains(agg, "FINAL") = Contains(base, "FINAL")
              /\ Words(LineOf(agg, "WHERE")) = Words(LineOf(base, "WHERE"))
              /\ Contains(agg, "DISTINCT") = Contains(base, "DISTINCT")
              /\ LineOf(agg, "ORDER BY") = LineOf(base, "ORDER BY")
              /\ LineOf(agg, "LIMIT") = LineOf(base, "LIMIT")]_vars

-----------------------------------------------------------------------------
(* C14 *)

\* C14: conditions_as_sql is the ' AND '-join of the renderings of the trees
\* that are not '1', followed by the raw extra fragment when one is set, and is
\* '1' only when nothing remains.
C14_ConditionsDropNeutral ==
    \A i \in Objs :
        LET o == heap.objs[i]
            trees == heap.lists[o._q]
            kept == SelectSeq([j \in 1..Len(trees) |-> to_sql(trees[j], model).val],
                              LAMBDA x : x # <<"1">>)
            conjuncts == kept \o (IF o._extra # <<>> THEN <<o._extra>> ELSE <<>>)
        IN  conditions_as_sql(heap, i, model) =
                Ok(IF conjuncts = <<>> THEN <<"1">> ELSE Join(<<SP, "AND", SP>>, conjuncts))

-----------------------------------------------------------------------------
(* C15 *)

\* the number of places of text that hold an atom of the set atoms
Count(text, atoms) == Cardinality({i \in 1..Len(text) : text[i] \in atoms})

\* C15: after a join() call, whatever calls came before it, the join clause has
\* one strictness keyword and one kind keyword, those of this call, then the
\* target, the alias when there is one, and USING with the join fields.
C15_JoinKeywords ==
    (ret.op = "join" /\ ret.exc = "") =>
        LET clause == join_as_sql(heap, ret.obj, model)
            a == ret.args
            strictness == IF a.all_ THEN "ALL" ELSE "ANY"
            kind == IF a.inner_ THEN "INNER JOIN" ELSE "LEFT JOIN"
            alias == Words(heap.objs[ret.obj]._join_label)
        IN  /\ Count(clause, {"ALL", "ANY"}) = 1 /\ Contains(clause, strictness)
            /\ Count(clause, {"INNER JOIN", "LEFT JOIN"}) = 1 /\ Contains(clause, kind)
            /\ a.label_ # <<>> => alias = <<"AS">> \o a.label_
            /\ Words(clause) = <<strictness, kind>> \o a.query.table \o alias
                                   \o <<"USING">> \o Words(comma_join(a.join_fields))
            /\ Find(as_sql(heap, ret.obj, model).val, clause) # 0

-----------------------------------------------------------------------------
(* C16 *)

\* C16: array_join(*items, label) with at least one item returns a queryset
\* whose SQL has the clause 'ARRAY JOIN [items]', followed by ' AS label' when a
\* label is given; without a label the clause is still there.
C16_ArrayJoinClause ==
    (ret.op = "array_join" /\ ret.args.array # <<>>) =>
        LET a == ret.args
            clause == <<"ARRAY JOIN", SP, "[">> \o comma_join(a.array) \o <<"]">>
                          \o (IF a.label # <<>> THEN <<SP, "AS", SP>> \o a.label ELSE <<>>)
        IN  /\ ret.exc = ""
            /\ Find(as_sql(heap, ret.obj, model).val, clause) # 0

====
